---- MODULE Spec2Model ----
(***************************************************************************)
(* VolumeProfile of 0D_velocity_example.ipynb: the piston-velocity helper  *)
(* handed to cantera.Wall, and the variable-volume run that integrates it. *)
(*                                                                         *)
(* Numbers.  numpy works on float64.  A float is modelled as a pair        *)
(* <<n, d>> of integers in lowest terms: d > 0 is the rational n/d,        *)
(* <<1, 0>> is +inf, <<-1, 0>> is -inf and <<0, 0>> is nan, with the IEEE  *)
(* rules for division by zero, inf - inf and 0 * inf.  Rounding of finite  *)
(* results is not modelled: finite arithmetic is exact.                    *)
(*                                                                         *)
(* Python indexes from 0, TLA+ sequences from 1: time[0] is time[1] here,  *)
(* time[-1] is time[Len(time)].                                            *)
(***************************************************************************)
EXTENDS Integers, Sequences, FiniteSets

\* Longest time/volume trace handed to the constructor.
MaxLen == 3
\* Sample times are integers 0..MaxTime (non-decreasing within a trace).
MaxTime == 2
\* Volume samples are integers 1..MaxVol (a measured cylinder volume is positive).
MaxVol == 3
\* The network time is counted in ticks, the unit of the sample times: the 0.1 s
\* of the loop guards is TicksPerEnd ticks.
TicksPerEnd == 4
\* The longest step the integrator takes in one netw.step(), in ticks.
MaxStepTicks == 2

VARIABLES
    in_time,    \* the `time` argument of VolumeProfile(time, volume)   (inp_time)
    in_vol,     \* the `volume` argument                                 (inp_vol)
    pc,         \* "new": not yet constructed; "ready": vpro exists
    time,       \* self.time
    volume,     \* self.volume
    velocity,   \* self.velocity
    called,     \* TRUE once vpro(t) has been called
    arg,        \* t of the latest call vpro(t)
    ret,        \* value returned by the latest call
    noted,      \* observer: at most one earlier call <<t, value, later>> kept for
                \* comparison; later = a call with a greater t has happened since
    simK,       \* variable-volume run: index of the input sample the run has reached
    simVol,     \* variable-volume run: reac.volume at that sample time
    run,        \* integration loop being run: "none", "constant" or "variable"
    lpc,        \* position in that loop: "idle", "test" (the while condition),
                \* "body" (the appends and netw.step()), "done" (after the loop)
    netTime,    \* netw.time, in ticks
    reacT,      \* reac.T, in K
    list_time,  \* the list time / vol_time
    list_temperature    \* the list temperature / vol_temperature

loopvars == <<run, lpc, netTime, reacT, list_time, list_temperature>>

vars == <<in_time, in_vol, pc, time, volume, velocity, called, arg, ret, noted,
          simK, simVol, run, lpc, netTime, reacT, list_time, list_temperature>>

----------------------------------------------------------------------------
(* float64 values *)

Abs(n) == IF n < 0 THEN -n ELSE n

Sgn(n) == IF n < 0 THEN -1 ELSE IF n > 0 THEN 1 ELSE 0

RECURSIVE GCD(_, _)
GCD(a, b) == IF b = 0 THEN a ELSE GCD(b, a % b)

\* The float n/d: lowest terms, positive denominator; n/0 is +-inf or nan.
Q(n, d) ==
    IF d = 0 THEN <<Sgn(n), 0>>
    ELSE LET g == GCD(Abs(n), Abs(d))
             s == IF d < 0 THEN -1 ELSE 1
         IN  <<(s * n) \div g, Abs(d) \div g>>

FromInt(n) == <<n, 1>>

Zero == <<0, 1>>

NaN == <<0, 0>>

IsNaN(x) == x[1] = 0 /\ x[2] = 0

IsInf(x) == x[1] # 0 /\ x[2] = 0

IsFinite(x) == x[2] # 0

\* x > 0 as float64 compares (false for nan).
Positive(x) == x[1] > 0

\* a - b
QSub(a, b) ==
    IF IsNaN(a) \/ IsNaN(b) THEN NaN
    ELSE IF IsInf(a) THEN (IF IsInf(b) /\ b[1] = a[1] THEN NaN ELSE a)
    ELSE IF IsInf(b) THEN <<-b[1], 0>>
    ELSE Q(a[1] * b[2] - b[1] * a[2], a[2] * b[2])

\* a + b
QAdd(a, b) ==
    IF IsNaN(a) \/ IsNaN(b) THEN NaN
    ELSE IF IsInf(a) THEN (IF IsInf(b) /\ b[1] # a[1] THEN NaN ELSE a)
    ELSE IF IsInf(b) THEN b
    ELSE Q(a[1] * b[2] + b[1] * a[2], a[2] * b[2])

\* a * b  (0 * inf = nan)
QMul(a, b) == Q(a[1] * b[1], a[2] * b[2])

\* a / b  (x/0 = +-inf, 0/0 = nan, inf/inf = nan, x/inf = 0)
QDiv(a, b) ==
    IF IsInf(a) /\ IsFinite(b) /\ b[1] < 0 THEN <<-a[1], 0>>
    ELSE Q(a[1] * b[2], a[2] * b[1])

----------------------------------------------------------------------------
(* numpy helpers *)

\* np.array(xs) of integers, as floats
NpArray(xs) == [i \in 1..Len(xs) |-> FromInt(xs[i])]

\* np.diff(a): a[i+1] - a[i], one element shorter than a
NpDiff(a) == [i \in 1..(Len(a) - 1) |-> QSub(a[i + 1], a[i])]

\* a / b elementwise, for arrays of equal length
NpDivide(a, b) == [i \in 1..Len(a) |-> QDiv(a[i], b[i])]

\* a / x for a scalar x
NpDivideScalar(a, x) == [i \in 1..Len(a) |-> QDiv(a[i], x)]

\* np.append(a, x)
NpAppend(a, x) == Append(a, x)

----------------------------------------------------------------------------
(* VolumeProfile.__init__ *)

\* A plausible slip: the volume stored without the division by volume[0].
VolumeRaw(vol) == NpArray(vol)

\* self.volume = np.array(volume)/volume[0]
VolumeNormalized(vol) == NpDivideScalar(NpArray(vol), FromInt(vol[1]))

\* A plausible slip: the time deltas left out of the forward difference.
VelocityDiffNoDt(vol_n, tm) == NpDiff(vol_n)

\* A plausible slip: division by the sample times, not by their differences.
VelocityDiffByTime(vol_n, tm) ==
    NpDivide(NpDiff(vol_n), [i \in 1..(Len(tm) - 1) |-> FromInt(tm[i + 1])])

\* np.diff(self.volume)/np.diff(self.time)
VelocityDiff(vol_n, tm) == NpDivide(NpDiff(vol_n), NpDiff(NpArray(tm)))

\* A plausible slip: the trailing zero not appended.
VelocityNoAppend(vol_n, tm) == VelocityDiff(vol_n, tm)

\* self.velocity = np.append(self.velocity, 0)
VelocityOf(vol_n, tm) == NpAppend(VelocityDiff(vol_n, tm), Zero)

----------------------------------------------------------------------------
(* VolumeProfile.__call__ *)

\* t <= self.time[-1] and t >= self.time[0]
InRange(tm, t) == t <= tm[Len(tm)] /\ t >= tm[1]

\* self.time[self.time <= t]: the entries selected by the boolean mask, in order
Mask(tm, t) == SelectSeq(tm, LAMBDA x : x <= t)

\* A plausible slip: [0] for [-1].
PrevTimePointFirst(tm, t) == Mask(tm, t)[1]

\* A plausible slip: the next sample taken, the first time >= t.
PrevTimePointNext(tm, t) == SelectSeq(tm, LAMBDA x : x >= t)[1]

\* prev_time_point = self.time[self.time <= t][-1]
PrevTimePoint(tm, t) == LET m == Mask(tm, t) IN m[Len(m)]

\* np.where(self.time == v)[0]: the indexes holding v, ascending
Where(tm, v) == SelectSeq([i \in 1..Len(tm) |-> i], LAMBDA i : tm[i] = v)

\* A plausible slip: the last match taken, [-1] for the final [0].
IndexOfLast(tm, v) == LET w == Where(tm, v) IN w[Len(w)]

\* index = np.where(self.time == prev_time_point)[0][0]
IndexOf(tm, v) == Where(tm, v)[1]

\* A plausible slip: the first velocity held outside the sampled range.
ElseReturnClamped(vel) == vel[1]

\* else: return 0
ElseReturn(vel) == Zero

\* The body of __call__ on given arrays.
Lookup(tm, vel, t) ==
    IF InRange(tm, t)
    THEN vel[IndexOf(tm, PrevTimePoint(tm, t))]
    ELSE ElseReturn(vel)

\* A plausible slip: a call that assumes time only moves forward and answers a
\* query earlier than the previous one with the previous value.
VolumeProfile_call_forward_only(t) ==
    IF called /\ t < arg THEN ret ELSE Lookup(time, velocity, t)

\* vpro(t)
VolumeProfile_call(t) == Lookup(time, velocity, t)

\* A plausible slip: the filtered array assigned back to self.time.
CallEffectTruncating(t) ==
    /\ time' = IF InRange(time, t) THEN Mask(time, t) ELSE time
    /\ UNCHANGED <<volume, velocity>>

\* What __call__ assigns on self: nothing.
CallEffect(t) == UNCHANGED <<time, volume, velocity>>

----------------------------------------------------------------------------
(* The program *)

NonDecreasing(s) == \A i \in 1..(Len(s) - 1) : s[i] <= s[i + 1]

StrictlyIncreasing(s) == \A i \in 1..(Len(s) - 1) : s[i] < s[i + 1]

TimeTraces ==
    {s \in UNION {[1..n -> 0..MaxTime] : n \in 1..MaxLen} : NonDecreasing(s)}

\* Query times: every sample time, times between samples, one before, one after.
Queries == (0 - 1)..(MaxTime + 1)

\* reac = ct.IdealGasReactor(gas): a new reactor has volume 1.0 m**3
InitialVolume == 1

\* wall = ct.Wall(reac, env, A=1.0, velocity=vpro)
WallArea == 1

Init ==
    /\ in_time \in TimeTraces
    /\ in_vol \in [1..Len(in_time) -> 1..MaxVol]
    /\ pc = "new"
    /\ time = <<>>
    /\ volume = <<>>
    /\ velocity = <<>>
    /\ called = FALSE
    /\ arg = 0
    /\ ret = Zero
    /\ noted = {}
    /\ simK = 1
    /\ simVol = FromInt(InitialVolume)
    /\ run = "none"
    /\ lpc = "idle"
    /\ netTime = 0
    /\ reacT = 0
    /\ list_time = <<>>
    /\ list_temperature = <<>>

\* vpro = VolumeProfile(inp_time, inp_vol)
Construct ==
    /\ pc = "new"
    /\ pc' = "ready"
    /\ time' = in_time
    /\ volume' = VolumeNormalized(in_vol)
    /\ velocity' = VelocityOf(volume', time')
    /\ UNCHANGED <<in_time, in_vol, called, arg, ret, noted, simK, simVol>>
    /\ UNCHANGED loopvars

\* The observer: a call is either kept (if none is kept yet) or compared.
NotedNext(t, r) ==
    IF noted = {}
    THEN {{}, {<<t, r, FALSE>>}}
    ELSE {{<<p[1], p[2], p[3] \/ t > p[1]>> : p \in noted}}

\* vpro(t), for any t
Call(t) ==
    /\ pc = "ready"
    /\ called' = TRUE
    /\ arg' = t
    /\ ret' = VolumeProfile_call(t)
    /\ CallEffect(t)
    /\ noted' \in NotedNext(t, ret')
    /\ UNCHANGED <<in_time, in_vol, pc, simK, simVol>>
    /\ UNCHANGED loopvars

\* The variable-volume run between two input sample times: the integrator asks
\* vpro for the wall velocity at a time q of the interval and the reactor volume
\* grows by A * velocity * dt.
Step ==
    /\ pc = "ready"
    /\ simK < Len(time)
    /\ \E q \in Queries :
        /\ q >= time[simK]
        /\ q < time[simK + 1] \/ q = time[simK]
        /\ called' = TRUE
        /\ arg' = q
        /\ ret' = VolumeProfile_call(q)
        /\ CallEffect(q)
        /\ simVol' = QAdd(simVol, QMul(QMul(FromInt(WallArea), ret'),
                                       FromInt(time[simK + 1] - time[simK])))
    /\ simK' = simK + 1
    /\ UNCHANGED <<in_time, in_vol, pc, noted>>
    /\ UNCHANGED loopvars

Next ==
    \/ Construct
    \/ \E t \in Queries : Call(t)

Spec == Init /\ [][Next]_vars

NextRun ==
    \/ Construct
    \/ Step

SpecRun == Init /\ [][NextRun]_vars

----------------------------------------------------------------------------
(* The integration loops *)

\* reac.T < 2500
TempLimit == 2500

\* netw.time < 0.1
TimeLimit == TicksPerEnd

\* gas.TP = 682, 30.11E5 (constant-volume run)
InitialTempConstant == 682

\* gas.TP = 323, 1.5137E5 (variable-volume run)
InitialTempVariable == 323

InitialTemp(r) == IF r = "constant" THEN InitialTempConstant ELSE InitialTempVariable

\* The temperatures a step of the integrator may leave in the reactor: the
\* initial one, and one below, at and above the limit of the guard.
TempValues(r) == {InitialTemp(r), TempLimit - 1, TempLimit, TempLimit + 1}

\* netw.set_max_time_step(inp_time[1]) in the variable-volume run; the
\* constant-volume run sets none.
MaxTimeStep ==
    IF run = "variable" /\ in_time[2] < MaxStepTicks THEN in_time[2] ELSE MaxStepTicks

\* The time a netw.step() advances by: at least one tick, at most the maximum step.
StepSizes == 1..MaxTimeStep

\* A plausible slip: the comment's "exceeds 2500 K" taken literally.
LoopGuardInclusive(T, t) == T <= TempLimit /\ t < TimeLimit

\* A plausible slip: or for and.
LoopGuardOr(T, t) == T < TempLimit \/ t < TimeLimit

\* while reac.T < 2500 and netw.time < 0.1
LoopGuard(T, t) == T < TempLimit /\ t < TimeLimit

\* The state when a loop is reached: a new reactor and network, empty lists; in
\* the variable-volume run vpro exists and inp_time[1] is a positive maximum
\* step.  The volume samples enter neither the guard nor the step bound.
InitLoop ==
    /\ in_time \in {s \in TimeTraces : Len(s) >= 2 /\ s[2] >= 1}
    /\ in_vol = [i \in 1..Len(in_time) |-> 1]
    /\ pc = "ready"
    /\ time = in_time
    /\ volume = VolumeNormalized(in_vol)
    /\ velocity = VelocityOf(volume, time)
    /\ called = FALSE
    /\ arg = 0
    /\ ret = Zero
    /\ noted = {}
    /\ simK = 1
    /\ simVol = FromInt(InitialVolume)
    /\ run \in {"constant", "variable"}
    /\ lpc = "test"
    /\ netTime = 0
    /\ reacT = InitialTemp(run)
    /\ list_time = <<>>
    /\ list_temperature = <<>>

\* The while condition is evaluated.
LoopTest ==
    /\ lpc = "test"
    /\ lpc' = IF LoopGuard(reacT, netTime) THEN "body" ELSE "done"
    /\ UNCHANGED <<in_time, in_vol, pc, time, volume, velocity, called, arg, ret,
                   noted, simK, simVol, run, netTime, reacT, list_time,
                   list_temperature>>

\* The loop body: the sample is appended to the lists (pressure and volume go to
\* their lists alongside), then netw.step() advances the time and leaves some
\* temperature.  The last conjunct caps the time: a step is only taken below
\* TimeLimit, so it ends below TimeLimit + MaxStepTicks.
LoopBody ==
    /\ lpc = "body"
    /\ list_time' = Append(list_time, netTime)
    /\ list_temperature' = Append(list_temperature, reacT)
    /\ \E d \in StepSizes : netTime' = netTime + d
    /\ reacT' \in TempValues(run)
    /\ netTime' < TimeLimit + MaxStepTicks
    /\ lpc' = "test"
    /\ UNCHANGED <<in_time, in_vol, pc, time, volume, velocity, called, arg, ret,
                   noted, simK, simVol, run>>

NextLoop ==
    \/ LoopTest
    \/ LoopBody

SpecLoop == InitLoop /\ [][NextLoop]_vars

\* The notebook runs the loop to its end: a step that can be taken is taken.
SpecLoopFair == InitLoop /\ [][NextLoop]_vars /\ WF_vars(NextLoop)

----------------------------------------------------------------------------
(* Properties *)

n == Len(time)

Constructed == pc = "ready"

\* The latest call was vpro(arg) on the constructed profile.
Answered == Constructed /\ called

HasDuplicates(s) == \E i, j \in 1..Len(s) : i < j /\ s[i] = s[j]

\* The index of the latest sample time not exceeding t (times strictly increasing).
LatestIndex(tm, t) ==
    CHOOSE i \in 1..Len(tm) : tm[i] <= t /\ (i = Len(tm) \/ tm[i + 1] > t)

\* The lowest index holding the largest sample time not exceeding t.
FirstIndexOfLatest(tm, t) ==
    LET le == {tm[i] : i \in {j \in 1..Len(tm) : tm[j] <= t}}
        m  == CHOOSE x \in le : \A y \in le : y <= x
    IN  CHOOSE i \in 1..Len(tm) : tm[i] = m /\ \A j \in 1..(i - 1) : tm[j] # m

\* C1: with strictly increasing sample times, a call with t before the first
\* sample time or after the last one returns 0.
C1_OutsideRangeReturnsZero ==
    (Answered /\ StrictlyIncreasing(time) /\ (arg < time[1] \/ arg > time[n]))
        => ret = Zero

\* C1 witness: a call after the last sample returned 0 and a later call before
\* the first sample, where the first velocity is not 0, returned 0 too.
C1_Witness ==
    /\ Answered /\ StrictlyIncreasing(time) /\ n >= 2
    /\ arg < time[1] /\ velocity[1] # Zero /\ ret = Zero
    /\ \E p \in noted : p[1] > time[n] /\ p[2] = Zero

\* C2: with strictly increasing sample times and time[0] <= t <= time[-1], the
\* call returns velocity[i] for i the index of the latest sample time <= t; so
\* two calls with times in the same interval [time[i], time[i+1]) return the
\* same value, which is a stored velocity and no interpolated one.
C2_StepFunction ==
    (Answered /\ StrictlyIncreasing(time) /\ time[1] <= arg /\ arg <= time[n])
        => /\ ret = velocity[LatestIndex(time, arg)]
           /\ \A p \in noted :
                (time[1] <= p[1] /\ p[1] <= time[n]
                    /\ LatestIndex(time, p[1]) = LatestIndex(time, arg))
                    => p[2] = ret

\* C2 witness: a call strictly between two samples whose velocities differ
\* returned the earlier sample's velocity, as did a call at that sample time.
C2_Witness ==
    /\ Answered /\ StrictlyIncreasing(time)
    /\ \E i \in 1..(n - 1) :
        /\ time[i] < arg /\ arg < time[i + 1]
        /\ velocity[i] # velocity[i + 1]
        /\ ret = velocity[i]
        /\ \E p \in noted : p[1] = time[i] /\ p[2] = ret

\* C3 as stated: for every index i, a call with t = time[i] returns velocity[i].
C3_ExactMatchEveryIndex ==
    Answered => \A i \in 1..n : time[i] = arg => ret = velocity[i]

\* C3 amended: for sample times in non-decreasing order and every index i that
\* is the first to hold its time value (every index when the times are strictly
\* increasing), a call with t = time[i] returns velocity[i].
C3_ExactMatchFirstIndex ==
    Answered =>
        \A i \in 1..n :
            (time[i] = arg /\ \A j \in 1..(i - 1) : time[j] # time[i])
                => ret = velocity[i]

\* C3 witness: strictly increasing times, a call at the middle sample time
\* returned its velocity, which differs from both neighbours'.
C3_Witness ==
    /\ Answered /\ StrictlyIncreasing(time) /\ n = 3
    /\ arg = time[2] /\ ret = velocity[2]
    /\ velocity[2] # velocity[1] /\ velocity[2] # velocity[3]

\* C4: after construction from sequences of equal length n >= 1 the velocity
\* sequence has length n, as have the stored time and volume sequences.
C4_EqualLengths ==
    Constructed =>
        /\ Len(in_time) >= 1 /\ Len(in_vol) = Len(in_time)
        /\ Len(velocity) = Len(in_time)
        /\ Len(time) = Len(in_time)
        /\ Len(volume) = Len(in_vol)

\* C4 witness: a profile built from a single sample has one velocity.
C4_Witness == Constructed /\ Len(in_time) = 1 /\ Len(velocity) = 1

\* C5: construction stores volume[i]/volume[0], sets velocity[i] to
\* (volume[i+1] - volume[i]) / (time[i+1] - time[i]) on the stored volumes for
\* i < n-1, and velocity[n-1] to 0.  The second and fourth conjuncts say the same
\* by cross-multiplication on the inputs where the quotient is finite.
C5_Construction ==
    Constructed =>
        /\ \A i \in 1..n : volume[i] = QDiv(FromInt(in_vol[i]), FromInt(in_vol[1]))
        /\ \A i \in 1..n :
            volume[i][2] > 0 /\ volume[i][1] * in_vol[1] = volume[i][2] * in_vol[i]
        /\ \A i \in 1..(n - 1) :
            velocity[i] = QDiv(QSub(volume[i + 1], volume[i]),
                               FromInt(time[i + 1] - time[i]))
        /\ \A i \in 1..(n - 1) :
            time[i + 1] > time[i] =>
                /\ velocity[i][2] > 0
                /\ velocity[i][1] * ((time[i + 1] - time[i]) * in_vol[1])
                     = velocity[i][2] * (in_vol[i + 1] - in_vol[i])
        /\ velocity[n] = Zero

\* C5 witness: volumes 2, 3, ... over a unit time step give the first velocity 1/2.
C5_Witness ==
    /\ Constructed /\ n = 3
    /\ in_vol[1] = 2 /\ in_vol[2] = 3 /\ in_time[2] - in_time[1] = 1
    /\ volume[2] = <<3, 2>> /\ velocity[1] = <<1, 2>> /\ velocity[3] = Zero

\* volume[i+1] - volume[i] is the same positive number for every i.
LinearlyIncreasing(vol) ==
    /\ Len(vol) >= 2
    /\ vol[2] > vol[1]
    /\ \A i \in 1..(Len(vol) - 1) : vol[i + 1] - vol[i] = vol[2] - vol[1]

\* time[i+1] - time[i] is the same for every i.
UniformSpacing(tm) ==
    \A i \in 1..(Len(tm) - 1) : tm[i + 1] - tm[i] = tm[2] - tm[1]

C7_TieBreakFirstIndex ==
    (Answered /\ HasDuplicates(time) /\ time[1] <= arg /\ arg <= time[n])
        => /\ ret = velocity[FirstIndexOfLatest(time, arg)]
           /\ \A p \in noted : p[1] = arg => p[2] = ret

\* C7 witness: two samples share the time asked for, their velocities differ
\* and the call returned the first one's.
C7_Witness ==
    /\ Answered
    /\ \E i, j \in 1..n :
        /\ i < j /\ time[i] = arg /\ time[j] = arg
        /\ \A k \in 1..(i - 1) : time[k] # arg
        /\ velocity[i] # velocity[j]
        /\ ret = velocity[i]

\* C8: once the profile is constructed no step changes its stored time, volume
\* and velocity sequences.
C8_CallsLeaveArraysUnchanged ==
    [][Constructed => (time' = time /\ volume' = volume /\ velocity' = velocity)]_vars

\* C8 witness: several calls have been made, in range and with different times,
\* and the stored time sequence is still the constructor's argument.
C8_Witness ==
    /\ Answered /\ n >= 2 /\ time = in_time
    /\ arg >= time[1] /\ arg <= time[n]
    /\ \E p \in noted : p[3] /\ p[1] >= time[1]

\* C9: a call returns what an earlier call with the same t returned, whatever
\* calls were made in between.
C9_SameTimeSameValue ==
    Answered => \A p \in noted : p[1] = arg => p[2] = ret

\* C9 witness: vpro(t) was called, then a call with a greater time, and a call
\* with t again (so, out of order) returned the same non-zero value.
C9_Witness ==
    /\ Answered
    /\ \E p \in noted : p[1] = arg /\ p[3] /\ p[2] = ret /\ ret # Zero

InLoop == lpc \in {"test", "body", "done"}

C12_LoopTerminates == <>(lpc = "done")

\* C12 witness: the constant-volume loop has ended on the time alone, the
\* temperature still below its limit.
C12_Witness ==
    /\ run = "constant" /\ lpc = "done"
    /\ netTime >= TimeLimit /\ reacT < TempLimit
    /\ Len(list_time) >= 2

====
